---- MODULE Spec2Model ----
(***************************************************************************)
(* State-machine model of the isolated streaming proxy of src/app.py:      *)
(* the per-client Flask session (cookie), the worker-local registry        *)
(* (video_sessions, video_metadata), the routes /set-video, /video, /fast, *)
(* /proxy/<url>, /mx and the two relay functions stream_video and          *)
(* stream_video_mx_optimized with their upstream GETs.  The worker is a    *)
(* gunicorn sync worker (src/gunicorn.conf.py): it serves one request at a *)
(* time, so req holds the locals of the request being served, or of the    *)
(* last one served until the next arrives.                                 *)
(*                                                                         *)
(* Strings the code takes apart (form values, URLs, the proxy path, the    *)
(* User-Agent) are sequences of tokens; strings it only copies are TLA+    *)
(* strings.  None and the empty string, which the code tells apart only by *)
(* truthiness, are both the empty sequence (NoUrl) or "" (no Range).       *)
(* A session id f"isolated_{cache_buster}_{int(time.time())}" is the       *)
(* record of its two numbers; the id None is NoId.                         *)
(* Header dicts are functions from header names to values.  An upstream    *)
(* body is its size in bytes and the size of the pieces it is framed in;   *)
(* the chunks relayed are records of offset and length into it.            *)
(*                                                                         *)
(* Started with python app.py the program runs app.run(threaded=True):     *)
(* SpecThreads is that process, with a thread per request (handlers), the  *)
(* cleanup_sessions thread (janitor) and signal_handler, each step one     *)
(* operation on the two dicts.  SpecWorkers is the gunicorn deployment with *)
(* several workers: pool holds the dicts of the workers not serving.       *)
(***************************************************************************)
EXTENDS Integers, Sequences, FiniteSets, TLC

\* ---------------------------------------------------------------- bounds
\* largest cache_buster a client's cookie reaches (set-video calls per client)
MaxCounter == 2
\* int(time.time()) runs over 0..MaxTime
MaxTime == 1

\* ---------------------------------------------------------------- inputs
Clients == {"c1", "c2"}

SP == " "
NoUrl == << >>
UrlA == <<"https://", "a">>
UrlB == <<"http://", "b">>

\* values of the form field video_url
FormValues == {NoUrl, <<SP>>, UrlA, <<SP, "http://", "b", SP>>}
\* values of the query parameter url (NoUrl: absent or empty)
UrlParams == {NoUrl, UrlA, UrlB}
\* values of <path:url> of /proxy/<path:url>
ProxyPaths == {<<"http://", "%62">>, <<"a">>}
Methods == {"GET", "HEAD", "OPTIONS"}
\* inbound User-Agent headers, as sequences of words
UserAgents == {<<"Mozilla">>, <<"MX Player">>, <<"MXPlayer">>, <<"VLC", "Android">>}
\* inbound Range headers ("": none)
Ranges == {"", "bytes=0-"}

NoId == [counter |-> 0, unixtime |-> 0]

\* the two chunk sizes
FAST_CHUNK_SIZE == 1024 * 1024
STANDARD_CHUNK_SIZE == 512 * 1024

\* header dicts are functions from header names to values
NoHeaders == [h \in {} |-> ""]

\* response headers an upstream sends: none of those the code looks at; a
\* whole video; a part of a file served as application/octet-stream
WholeHeaders == ("Content-Type" :> "video/mp4") @@ ("Content-Length" :> "3145728")
PartHeaders ==
  ("Content-Type" :> "application/octet-stream") @@ ("Content-Length" :> "100")
    @@ ("Content-Range" :> "bytes 0-99/100") @@ ("ETag" :> "e1")
    @@ ("Server" :> "cdn")
UpstreamHeaders == {NoHeaders, WholeHeaders, PartHeaders}

\* an upstream body: its size in bytes, and the size of the pieces the upstream
\* frames it in (chunked transfer encoding; 0: one piece, with Content-Length)
Body(size, piece) == [size |-> size, piece |-> piece]
NoBody == Body(0, 0)

\* what one upstream GET can come to: a response with a status, headers and a
\* body, or an exception
AnswerWith(s, h, b) == [exc |-> "none", status |-> s, headers |-> h, body |-> b]
Answer(s) == AnswerWith(s, NoHeaders, NoBody)
Raised(e) == [exc |-> e, status |-> 0, headers |-> NoHeaders, body |-> NoBody]
Outcomes ==
  {AnswerWith(s, h, NoBody) : s \in {200, 206}, h \in UpstreamHeaders}
    \cup {Answer(403), Answer(404), Answer(503),
          Raised("Timeout"), Raised("ConnectionError")}

VARIABLES
  cookie,          \* cookie[c]: client c's Flask session
  video_sessions,  \* worker-local: session id -> requests.Session
  video_metadata,  \* worker-local: session id -> metadata record
  now,             \* int(time.time())
  req,             \* the request the worker is serving or has just served
  produced,        \* history: the session ids created so far in the process
  handlers,        \* handlers[t]: the locals of handler thread t (threaded=True)
  janitor,         \* the locals of the cleanup_sessions thread
  closed,          \* history: the requests.Session objects close() was called on
  server_running,  \* server_running; FALSE once signal_handler has run
  pool             \* the worker serving, the registries of the other workers

\* the state of the threads of the threaded scope, which the other scopes leave
\* alone
threadvars == <<handlers, janitor, closed, server_running>>

vars == <<cookie, video_sessions, video_metadata, now, req, produced,
          handlers, janitor, closed, server_running, pool>>

\* ------------------------------------------------------- pure functions
RECURSIVE LStrip(_)
LStrip(s) == IF s # << >> /\ Head(s) = SP THEN LStrip(Tail(s)) ELSE s

RECURSIVE RStrip(_)
RStrip(s) ==
  IF s # << >> /\ s[Len(s)] = SP THEN RStrip(SubSeq(s, 1, Len(s) - 1)) ELSE s

\* mutant: a strip() that leaves the string as it is
StripNothing(s) == s

\* str.strip()
Strip(s) == RStrip(LStrip(s))

\* urllib.parse.unquote, on the one escape the inputs hold
Unquote(s) == [i \in 1..Len(s) |-> IF s[i] = "%62" THEN "b" ELSE s[i]]

\* str.startswith('http')
StartsWithHttp(s) == s # << >> /\ Head(s) \in {"http://", "https://"}

\* proxy_video's decoded_url
DecodeProxyPath(path) ==
  LET decoded_url == Unquote(path)
  IN IF StartsWithHttp(decoded_url) THEN decoded_url
     ELSE <<"https://">> \o decoded_url

\* str.lower(), on the words the inputs hold
LowerWord(w) ==
  CASE w = "MX Player" -> "mx player"
    [] w = "MXPlayer" -> "mxplayer"
    [] w = "Android" -> "android"
    [] w = "Mozilla" -> "mozilla"
    [] OTHER -> w

\* mutant: the test without its case-insensitive half
IsMxPlayerExact(ua) == \E i \in 1..Len(ua) : ua[i] = "MX Player"

\* 'MX Player' in user_agent or 'mxplayer' in user_agent.lower()
IsMxPlayer(ua) ==
  \E i \in 1..Len(ua) : ua[i] = "MX Player" \/ LowerWord(ua[i]) = "mxplayer"

\* any(x in user_agent.lower() for x in ['android', 'mobile', 'mxplayer'])
IsAndroidPlayer(ua) ==
  \E i \in 1..Len(ua) : LowerWord(ua[i]) \in {"android", "mobile", "mxplayer"}

\* f"isolated_{cache_buster}_{int(time.time())}"
IsolatedId(cache_buster, t) == [counter |-> cache_buster, unixtime |-> t]

\* dict operations
EmptyDict == [k \in {} |-> NoId]
Put(d, k, v) == [x \in DOMAIN d \cup {k} |-> IF x = k THEN v ELSE d[x]]

\* mutant: clear() that removes nothing
ClearedNothing(d) == d

\* dict.clear()
Cleared(d) == EmptyDict

\* get_current_video_url(), get_active_session_id(), session.get('cache_buster', 0)
get_current_video_url(c) == cookie[c].current_video_url
get_active_session_id(c) == cookie[c].active_video_id
get_cache_buster(c) == cookie[c].cache_buster

\* mutant: the id stored is built from the counter before the increment
StoredCookieOldCounter(new_url, active_video_id, cache_buster) ==
  [current_video_url |-> new_url,
   active_video_id |-> IsolatedId(cache_buster - 1, active_video_id.unixtime),
   cache_buster |-> cache_buster]

\* the three session[...] assignments of set_video
StoredCookie(new_url, active_video_id, cache_buster) ==
  [current_video_url |-> new_url,
   active_video_id |-> active_video_id,
   cache_buster |-> cache_buster]

\* the requests.Session objects the code builds
IsolatedSession(id) == [tag |-> id, origin |-> "set_video"]
StreamSession(id) == [tag |-> id, origin |-> "stream_video"]
MxSession == [tag |-> NoId, origin |-> "mx"]

Metadata(url, created, cache_buster, id) ==
  [url |-> url, created |-> created, cache_buster |-> cache_buster,
   session_id |-> id]

IdleReq ==
  [pc |-> "idle", client |-> "c1", endpoint |-> "none", method |-> "GET",
   url_given |-> NoUrl, fn |-> "none", mode |-> "none", video_url |-> NoUrl,
   user_agent |-> << >>, range |-> "",
   active_session_id |-> NoId, new_session |-> FALSE,
   session_obj |-> MxSession, actual_video_url |-> NoUrl,
   headers |-> [user_agent |-> [product |-> "", tag |-> NoId], accept |-> "",
               referer |-> "", range |-> ""],
   gets |-> << >>,
   status |-> 0, body |-> "none", resp_headers |-> NoHeaders,
   page |-> [session_id |-> NoId, url |-> NoUrl],
   chunk_size |-> 0, gen |-> "none", offset |-> 0,
   pending |-> [off |-> 0, len |-> 0], emitted |-> << >>,
   upstream_open |-> FALSE, read_failed |-> FALSE,
   client_gone |-> FALSE, late_pulls |-> 0]

\* a Flask session nothing was stored in, as the session.get defaults read it
EmptyCookie ==
  [current_video_url |-> NoUrl, active_video_id |-> NoId, cache_buster |-> 0]

\* the handler threads of app.run(threaded=True): one that serves the /set-video
\* requests and one that serves the streaming requests
SetVideoThreads == {"t1"}
StreamThreads == {"t2"}
Threads == SetVideoThreads \cup StreamThreads

\* the locals of a handler thread: session is the Flask session the request
\* came with, as the handler has changed it
IdleHandler ==
  [pc |-> "idle", op |-> "none", client |-> "c1", new_url |-> NoUrl,
   session |-> EmptyCookie, active_session_id |-> NoId, new_session |-> FALSE,
   session_obj |-> MxSession, actual_video_url |-> NoUrl,
   stream_open |-> FALSE, status |-> 0]

\* cleanup_sessions in time.sleep(300), before its first sweep
SleepingJanitor ==
  [pc |-> "sleep", current_time |-> 0, sessions_to_remove |-> << >>,
   size |-> 0, seen |-> {}, i |-> 1, completed |-> FALSE]

\* the gunicorn workers: each is a process with its own video_sessions and
\* video_metadata; the two variables of these names are those of the worker
\* that serves the request at hand
Workers == {"w1", "w2"}

\* the dicts of a worker that has served nothing
EmptyRegistry == [video_sessions |-> EmptyDict, video_metadata |-> EmptyDict]

\* the workers after the fork: worker w1 is given the first request; set_by is
\* history, the worker that served the last set-video of each client
OneWorker ==
  [serving |-> "w1",
   parked |-> [w \in Workers |-> EmptyRegistry],
   set_by |-> [c \in Clients |-> "none"]]

Init ==
  /\ cookie = [c \in Clients |-> EmptyCookie]
  /\ video_sessions = EmptyDict
  /\ video_metadata = EmptyDict
  /\ now = 0
  /\ req = IdleReq
  /\ produced = {}
  /\ handlers = [t \in Threads |-> IdleHandler]
  /\ janitor = SleepingJanitor
  /\ closed = {}
  /\ server_running = TRUE
  /\ pool = OneWorker

\* ---------------------------------------------------- requests, answers
\* the locals of a request that has just entered its route
Arrived(c, endpoint, method, user_agent, range, given) ==
  [IdleReq EXCEPT !.client = c, !.endpoint = endpoint, !.method = method,
                  !.user_agent = user_agent, !.range = range, !.url_given = given]

\* a response that ends the request
Answered(r, status, body) == [r EXCEPT !.pc = "done", !.status = status, !.body = body]

\* the same, with the headers the code gives the response
Responded(r, status, body, headers) ==
  [Answered(r, status, body) EXCEPT !.resp_headers = headers]

\* Response(..., headers=headers, mimetype=mimetype): the mimetype becomes the
\* Content-Type of the response, whatever the headers dict holds for it
FlaskResponseHeaders(headers, mimetype) == ("Content-Type" :> mimetype) @@ headers

\* redirect('/')
RedirectHeaders == "Location" :> "/"

\* mutant: a preflight answer without Access-Control-Allow-Origin
CorsPreflightNoOrigin ==
  ("Access-Control-Allow-Methods" :> "GET, HEAD, OPTIONS")
    @@ ("Access-Control-Allow-Headers" :> "Range, Content-Type, Authorization")
    @@ ("Access-Control-Max-Age" :> "86400")

\* the preflight answer of /video, /fast and /mx
CorsPreflightHeaders ==
  ("Access-Control-Allow-Origin" :> "*")
    @@ ("Access-Control-Allow-Methods" :> "GET, HEAD, OPTIONS")
    @@ ("Access-Control-Allow-Headers" :> "Range, Content-Type, Authorization")
    @@ ("Access-Control-Max-Age" :> "86400")

\* the headers of the 400 answers
PlayerHelpHeaders ==
  ("Content-Type" :> "text/plain") @@ ("Access-Control-Allow-Origin" :> "*")

\* the headers of the 500 answers: mimetype='text/plain'
ErrorHeaders == FlaskResponseHeaders(NoHeaders, "text/plain; charset=utf-8")

\* ------------------------------------------------------------ /set-video
\* set_video: strip the form value; a non-empty URL gets a new session id from
\* the client's own counter, the cookie is rewritten, both registry dicts are
\* cleared and the new session stored, and the page returned shows the id and
\* the URL; an empty value is answered by a redirect to the home page.
SetVideo(c, raw) ==
  LET new_url == Strip(raw)
      cache_buster == get_cache_buster(c) + 1
      active_video_id == IsolatedId(cache_buster, now)
      r == Arrived(c, "set-video", "POST", << >>, "", raw)
  IN /\ req.pc \in {"idle", "done"}
     /\ IF new_url # NoUrl
        THEN /\ cache_buster <= MaxCounter
             /\ cookie' = [cookie EXCEPT
                             ![c] = StoredCookie(new_url, active_video_id, cache_buster)]
             /\ video_sessions' = Put(Cleared(video_sessions), active_video_id,
                                      IsolatedSession(active_video_id))
             /\ video_metadata' = Put(Cleared(video_metadata), active_video_id,
                                      Metadata(new_url, now, cache_buster, active_video_id))
             /\ req' = [Answered(r, 200, "html") EXCEPT
                          !.page = [session_id |-> active_video_id, url |-> new_url]]
             /\ produced' = produced \cup {active_video_id}
             /\ pool' = [pool EXCEPT !.set_by[c] = pool.serving]
        ELSE /\ req' = Responded(r, 302, "redirect", RedirectHeaders)
             /\ UNCHANGED <<cookie, video_sessions, video_metadata, produced, pool>>
     /\ UNCHANGED <<now, threadvars>>

\* ------------------------------------------------------ streaming routes
\* mutant: the except clause answers with the upstream's own status
ErrorStatusOfUpstream(upstream_status) ==
  IF upstream_status = 0 THEN 500 ELSE upstream_status

\* the except clauses of stream_video and stream_video_mx_optimized
ErrorStatus(upstream_status) == 500

\* Response.raise_for_status(): HTTPError for 4xx and 5xx
RaisesForStatus(status) == 400 <= status /\ status < 600

\* the Referer of the first attempt and of the retry
FirstReferer == "https://moviebox.ng/"
AlternateReferer == "https://valiw.hakunaymatata.com/"

\* mutant: a headers dict the Range is never put in
StreamHeadersNoRange(r, active_session_id) ==
  [user_agent |-> [product |-> "FastStreamProxy", tag |-> active_session_id],
   accept |-> "*/*",
   referer |-> "https://moviebox.ng/",
   range |-> ""]

\* the headers dict of stream_video
StreamHeaders(r, active_session_id) ==
  [user_agent |-> IF IsMxPlayer(r.user_agent) \/ IsAndroidPlayer(r.user_agent)
                  THEN [product |-> "MXPlayer/1.46.15 (Android)", tag |-> NoId]
                  ELSE [product |-> "FastStreamProxy", tag |-> active_session_id],
   accept |-> IF IsMxPlayer(r.user_agent) \/ IsAndroidPlayer(r.user_agent)
              THEN "video/mp4,video/*,*/*" ELSE "*/*",
   referer |-> FirstReferer,
   range |-> r.range]

\* the session headers of stream_video_mx_optimized
MxHeaders(r) ==
  [user_agent |-> [product |-> "MXPlayer/1.46.15 (Android)", tag |-> NoId],
   accept |-> "video/mp4,video/*,*/*",
   referer |-> "",
   range |-> r.range]

\* stream_video up to its first upstream GET: take the client's active session
\* when the worker holds it, else create one from the client's counter + 1
StreamVideo(r, c, video_url, mode) ==
  LET active == get_active_session_id(c)
      cache_buster == get_cache_buster(c) + 1
      new_id == IsolatedId(cache_buster, now)
      q == [r EXCEPT !.fn = "stream_video", !.mode = mode, !.video_url = video_url]
  IN IF active # NoId /\ active \in DOMAIN video_sessions
     THEN /\ req' = IF active \in DOMAIN video_metadata
                    THEN [q EXCEPT !.pc = "get",
                                   !.active_session_id = active,
                                   !.session_obj = video_sessions[active],
                                   !.actual_video_url = video_metadata[active].url,
                                   !.headers = StreamHeaders(r, active)]
                    ELSE Responded(q, ErrorStatus(0), "text", ErrorHeaders)
          /\ UNCHANGED <<video_sessions, video_metadata, produced>>
     ELSE /\ req' = [q EXCEPT !.pc = "get",
                              !.active_session_id = new_id,
                              !.new_session = TRUE,
                              !.session_obj = StreamSession(new_id),
                              !.actual_video_url = video_url,
                              !.headers = StreamHeaders(r, new_id)]
          /\ video_sessions' = Put(video_sessions, new_id, StreamSession(new_id))
          /\ video_metadata' = Put(video_metadata, new_id,
                                   Metadata(video_url, now, cache_buster, new_id))
          /\ produced' = produced \cup {new_id}

\* the part /video and /fast share: preflight, url parameter, current URL
StandardOrFast(c, endpoint, mode, method, url_param, user_agent, range) ==
  LET r == Arrived(c, endpoint, method, user_agent, range, url_param)
      video_url == get_current_video_url(c)
  IN /\ req.pc \in {"idle", "done"}
     /\ IF method = "OPTIONS"
        THEN /\ req' = Responded(r, 200, "cors", CorsPreflightHeaders)
             /\ UNCHANGED <<video_sessions, video_metadata, produced>>
        ELSE IF url_param # NoUrl
        THEN StreamVideo(r, c, url_param, mode)
        ELSE IF video_url = NoUrl
        THEN /\ req' = IF IsMxPlayer(user_agent)
                       THEN Responded(r, 400, "text", PlayerHelpHeaders)
                       ELSE Responded(r, 302, "redirect", RedirectHeaders)
             /\ UNCHANGED <<video_sessions, video_metadata, produced>>
        ELSE StreamVideo(r, c, video_url, mode)
     /\ UNCHANGED <<cookie, now, threadvars, pool>>

\* video: /video
Video(c, method, url_param, user_agent, range) ==
  StandardOrFast(c, "video", "standard", method, url_param, user_agent, range)

\* fast_video: /fast
FastVideo(c, method, url_param, user_agent, range) ==
  StandardOrFast(c, "fast", "fast", method, url_param, user_agent, range)

\* proxy_video: /proxy/<path:url>, GET only
ProxyVideo(c, path, user_agent, range) ==
  LET decoded_url == DecodeProxyPath(path)
      r == Arrived(c, "proxy", "GET", user_agent, range, decoded_url)
  IN /\ req.pc \in {"idle", "done"}
     /\ StreamVideo(r, c, decoded_url, "fast")
     /\ UNCHANGED <<cookie, now, threadvars, pool>>

\* mx_player_stream: /mx, up to the upstream GET of stream_video_mx_optimized
MxPlayerStream(c, method, url_param, user_agent, range) ==
  LET r == Arrived(c, "mx", method, user_agent, range, url_param)
      video_url == get_current_video_url(c)
      target == IF url_param # NoUrl THEN url_param ELSE video_url
  IN /\ req.pc \in {"idle", "done"}
     /\ req' = IF method = "OPTIONS"
               THEN Responded(r, 200, "cors", CorsPreflightHeaders)
               ELSE IF target = NoUrl
               THEN Responded(r, 400, "text", PlayerHelpHeaders)
               ELSE [r EXCEPT !.pc = "get", !.fn = "mx", !.mode = "fast",
                              !.video_url = target,
                              !.session_obj = MxSession,
                              !.actual_video_url = target,
                              !.headers = MxHeaders(r)]
     /\ UNCHANGED <<cookie, video_sessions, video_metadata, now, produced, threadvars, pool>>

\* ------------------------------------------------------- upstream GETs
\* session_obj.get(actual_video_url, headers=headers, stream=True, timeout=...):
\* whatever the method of the inbound request, the upstream request is a GET
\* whose body is left on the connection until it is iterated
UpstreamGet(r, timeout, outcome) ==
  [method |-> "GET", stream |-> TRUE,
   url |-> r.actual_video_url, session |-> r.session_obj, headers |-> r.headers,
   timeout |-> timeout, outcome |-> outcome]

\* ------------------------------------------------------ response headers
\* response.headers.get('Content-Type', 'video/mp4')
ContentTypeOf(upstream_headers) ==
  IF "Content-Type" \in DOMAIN upstream_headers
  THEN upstream_headers["Content-Type"] ELSE "video/mp4"

\* content_type.startswith('video/'), on the content types the inputs hold
StartsWithVideo(content_type) == content_type \in {"video/mp4", "video/webm"}

\* f'inline; filename="video.{content_type.split("/")[-1] ...}"'
VideoFileName(content_type) ==
  CASE content_type = "video/mp4" -> "inline; filename=\"video.mp4\""
    [] content_type = "video/webm" -> "inline; filename=\"video.webm\""
    [] content_type = "application/octet-stream"
         -> "inline; filename=\"video.octet-stream\""
    [] OTHER -> "inline; filename=\"video.mp4\""

\* str(chunk_size), on the two chunk sizes
Str(n) ==
  CASE n = 1024 * 1024 -> "1048576"
    [] n = 512 * 1024 -> "524288"
    [] OTHER -> "0"

\* the headers copied from the upstream response when it has them
EssentialHeaders == {"Content-Length", "Content-Range", "Last-Modified", "ETag"}
CopiedHeaders(upstream_headers) ==
  [h \in DOMAIN upstream_headers \cap EssentialHeaders |-> upstream_headers[h]]

\* is_mx_player or is_android_player
IsPlayer(ua) == IsMxPlayer(ua) \/ IsAndroidPlayer(ua)

\* mutant: the fast chunk size in every mode
ChunkSizeFast(mode) == FAST_CHUNK_SIZE

\* stream_video: the chunk size of the mode
ChunkSize(mode) == IF mode = "fast" THEN FAST_CHUNK_SIZE ELSE STANDARD_CHUNK_SIZE

\* stream_video: the headers of the answer to a HEAD request
StreamHeadHeaders(r, upstream_headers) ==
  LET content_type == ContentTypeOf(upstream_headers)
      forced == IsPlayer(r.user_agent) /\ ~StartsWithVideo(content_type)
      resp_headers ==
        ("Content-Type" :> content_type) @@ ("Accept-Ranges" :> "bytes")
          @@ ("Access-Control-Allow-Origin" :> "*")
          @@ ("Access-Control-Allow-Methods" :> "GET, HEAD, OPTIONS")
          @@ ("Access-Control-Allow-Headers"
                :> "Range, Content-Type, Authorization, User-Agent")
          @@ ("Access-Control-Expose-Headers"
                :> "Content-Length, Content-Range, Accept-Ranges")
          @@ ("Content-Disposition" :> VideoFileName(content_type))
          @@ ("X-Content-Type-Options" :> "nosniff")
          @@ ("Connection" :> "keep-alive") @@ ("Server" :> "nginx/1.18.0")
          @@ ("Cache-Control" :> "no-cache")
      copied == CopiedHeaders(upstream_headers) @@ resp_headers
      player ==
        ("X-MX-Player-Compatible" :> "true") @@ ("Transfer-Encoding" :> "identity")
          @@ ("X-Android-Compatible" :> "true")
          @@ ("X-Video-Direct-Stream" :> "true") @@ ("Vary" :> "Accept-Encoding")
          @@ ("Content-Security-Policy" :> "default-src *")
      updated == IF IsPlayer(r.user_agent) THEN player @@ copied ELSE copied
  IN FlaskResponseHeaders(updated, IF forced THEN "video/mp4" ELSE content_type)

\* mutant: the GET answer built with the headers of the HEAD answer
StreamGetHeadersOfHead(r, upstream_headers) ==
  StreamHeadHeaders(r, upstream_headers)

\* stream_video: the headers of the answer to a GET request
StreamGetHeaders(r, upstream_headers) ==
  LET content_type == ContentTypeOf(upstream_headers)
      forced == IsPlayer(r.user_agent) /\ ~StartsWithVideo(content_type)
      resp_headers ==
        ("Content-Type" :> content_type) @@ ("Accept-Ranges" :> "bytes")
          @@ ("Cache-Control" :> "no-cache, no-store, must-revalidate")
          @@ ("Pragma" :> "no-cache") @@ ("Expires" :> "0")
          @@ ("X-Video-Session" :> r.active_session_id)
          @@ ("X-Stream-Mode" :> r.mode)
          @@ ("X-Chunk-Size" :> Str(r.chunk_size))
          @@ ("Access-Control-Allow-Origin" :> "*")
          @@ ("Access-Control-Allow-Methods" :> "GET, HEAD, OPTIONS")
          @@ ("Access-Control-Allow-Headers"
                :> "Range, Content-Type, Authorization, User-Agent")
          @@ ("Access-Control-Expose-Headers"
                :> "Content-Length, Content-Range, Accept-Ranges")
          @@ ("Content-Disposition" :> "inline; filename=\"video.mp4\"")
          @@ ("X-Content-Type-Options" :> "nosniff")
          @@ ("Connection" :> "keep-alive") @@ ("Transfer-Encoding" :> "identity")
          @@ ("Server" :> "nginx/1.18.0") @@ ("X-Frame-Options" :> "SAMEORIGIN")
          @@ ("Vary" :> "Accept-Encoding")
      player ==
        ("X-MX-Player-Compatible" :> "true") @@ ("X-Android-Compatible" :> "true")
          @@ ("X-Video-Direct-Stream" :> "true")
          @@ ("Content-Security-Policy" :> "default-src *")
          @@ ("X-Content-Type-Options" :> "nosniff")
      updated == IF IsPlayer(r.user_agent) THEN player @@ resp_headers
                 ELSE resp_headers
      coerced == IF forced THEN ("Content-Type" :> "video/mp4") @@ updated
                 ELSE updated
  IN FlaskResponseHeaders(CopiedHeaders(upstream_headers) @@ coerced,
                          ContentTypeOf(upstream_headers))

\* stream_video_mx_optimized: the headers of its answers to HEAD and to GET
MxResponseHeaders(r, upstream_headers) ==
  LET content_type == IF StartsWithVideo(ContentTypeOf(upstream_headers))
                      THEN ContentTypeOf(upstream_headers) ELSE "video/mp4"
      head_headers ==
        ("Content-Type" :> content_type) @@ ("Accept-Ranges" :> "bytes")
          @@ ("Connection" :> "keep-alive")
          @@ ("X-MX-Player-Compatible" :> "true")
          @@ ("X-Android-Compatible" :> "true")
          @@ ("Access-Control-Allow-Origin" :> "*")
          @@ ("Content-Disposition" :> "inline; filename=\"video.mp4\"")
      get_headers ==
        head_headers @@ ("X-Video-Direct-Stream" :> "true")
          @@ ("Cache-Control" :> "no-cache")
      resp_headers == IF r.method = "HEAD" THEN head_headers ELSE get_headers
  IN FlaskResponseHeaders(CopiedHeaders(upstream_headers) @@ resp_headers,
                          content_type)

\* Response(generate(), status_code, headers=...): the answer whose body the
\* serving layer takes from the generator, chunk by chunk; the upstream
\* response stays open behind it
Streaming(r, status, headers) ==
  [r EXCEPT !.pc = "relay", !.status = status, !.body = "stream",
            !.resp_headers = headers, !.gen = "suspended",
            !.upstream_open = TRUE]

\* stream_video after raise_for_status(): the chunk size of the mode, then the
\* answer to HEAD, Response('', headers=...) with the default status 200 and
\* the generator never started, or the answer to GET
StreamVideoResponse(r, response) ==
  LET q == [r EXCEPT !.chunk_size = ChunkSize(r.mode)]
  IN IF r.method = "HEAD"
     THEN Responded(q, 200, "empty", StreamHeadHeaders(q, response.headers))
     ELSE Streaming(q, response.status, StreamGetHeaders(q, response.headers))

\* stream_video_mx_optimized after raise_for_status()
MxResponse(r, response) ==
  IF r.method = "HEAD"
  THEN Responded(r, 200, "empty", MxResponseHeaders(r, response.headers))
  ELSE Streaming([r EXCEPT !.chunk_size = FAST_CHUNK_SIZE], response.status,
                 MxResponseHeaders(r, response.headers))

\* mutant: the GET stands outside the try block, so that an exception it raises
\* leaves the handler and Flask answers with the page of errorhandler(500)
RelayedUncaught(r, outcome) ==
  IF outcome.exc # "none" THEN Answered(r, 500, "html")
  ELSE IF RaisesForStatus(outcome.status)
  THEN Responded(r, ErrorStatus(outcome.status), "text", ErrorHeaders)
  ELSE IF r.fn = "mx" THEN MxResponse(r, outcome)
  ELSE StreamVideoResponse(r, outcome)

\* what follows the last GET of a request: an exception raised by the GET or by
\* raise_for_status() is caught by the except clauses and answered with the
\* error status and a plain text; else the relay function builds its answer
Relayed(r, outcome) ==
  IF outcome.exc # "none" \/ RaisesForStatus(outcome.status)
  THEN Responded(r, ErrorStatus(outcome.status), "text", ErrorHeaders)
  ELSE IF r.fn = "mx" THEN MxResponse(r, outcome)
  ELSE StreamVideoResponse(r, outcome)

\* stream_video: the first GET; a 403 answer changes the Referer and leaves the
\* request before its second GET
StreamVideoGet(outcome) ==
  LET r == [req EXCEPT !.gets = Append(req.gets, UpstreamGet(req, 20, outcome))]
  IN /\ req.pc = "get" /\ req.fn = "stream_video" /\ Len(req.gets) = 0
     /\ req' = IF outcome.exc = "none" /\ outcome.status = 403
               THEN [r EXCEPT !.headers.referer = AlternateReferer]
               ELSE Relayed(r, outcome)
     /\ UNCHANGED <<cookie, video_sessions, video_metadata, now, produced, threadvars, pool>>

\* stream_video: the second GET, after a 403
StreamVideoRetry(outcome) ==
  LET r == [req EXCEPT !.gets = Append(req.gets, UpstreamGet(req, 20, outcome))]
  IN /\ req.pc = "get" /\ req.fn = "stream_video" /\ Len(req.gets) = 1
     /\ req' = Relayed(r, outcome)
     /\ UNCHANGED <<cookie, video_sessions, video_metadata, now, produced, threadvars, pool>>

\* stream_video_mx_optimized: its only GET
MxGet(outcome) ==
  LET r == [req EXCEPT !.gets = Append(req.gets, UpstreamGet(req, 30, outcome))]
  IN /\ req.pc = "get" /\ req.fn = "mx"
     /\ req' = Relayed(r, outcome)
     /\ UNCHANGED <<cookie, video_sessions, video_metadata, now, produced, threadvars, pool>>

\* ------------------------------------------------------------ the body
\* The serving layer iterates generate(): each chunk the generator yields is
\* written to the client before the next is asked for.
UpstreamBody == req.gets[Len(req.gets)].outcome.body

Min(a, b) == IF a <= b THEN a ELSE b

\* the length of what the next read of response.iter_content(chunk_size)
\* returns: at most chunk_size bytes, no more than the upstream has framed in
\* its current piece, no more than is left of the body
NextRead(body, offset, chunk_size) ==
  LET left == body.size - offset
      framed == IF body.piece = 0 THEN left
                ELSE body.piece - (offset % body.piece)
  IN Min(chunk_size, Min(left, framed))

\* mutant: a generator that yields full chunks only
PullFullChunk ==
  LET n == NextRead(UpstreamBody, req.offset, req.chunk_size)
  IN /\ req.pc = "relay" /\ req.gen = "suspended"
     /\ req.offset < UpstreamBody.size
     /\ req' = [req EXCEPT
                  !.offset = req.offset + n,
                  !.gen = IF n = req.chunk_size THEN "yielded" ELSE "suspended",
                  !.pending = [off |-> req.offset, len |-> n]]
     /\ UNCHANGED <<cookie, video_sessions, video_metadata, now, produced, threadvars, pool>>

\* generate(): for chunk in response.iter_content(...): if chunk: yield chunk
PullChunk ==
  LET n == NextRead(UpstreamBody, req.offset, req.chunk_size)
  IN /\ req.pc = "relay" /\ req.gen = "suspended"
     /\ req.offset < UpstreamBody.size
     /\ req' = [req EXCEPT
                  !.offset = req.offset + n,
                  !.gen = IF n > 0 THEN "yielded" ELSE "suspended",
                  !.pending = [off |-> req.offset, len |-> n],
                  !.late_pulls = IF req.client_gone THEN req.late_pulls + 1
                                 ELSE req.late_pulls]
     /\ UNCHANGED <<cookie, video_sessions, video_metadata, now, produced, threadvars, pool>>

\* generate(): the iteration ends with the body; the generator returns
PullEnd ==
  /\ req.pc = "relay" /\ req.gen = "suspended"
  /\ req.offset = UpstreamBody.size
  /\ req' = [req EXCEPT !.pc = "done", !.gen = "complete",
                        !.upstream_open = FALSE]
  /\ UNCHANGED <<cookie, video_sessions, video_metadata, now, produced, threadvars, pool>>

\* mutant: the except clause of generate() logs the error and returns
Swallowed(r) ==
  [r EXCEPT !.pc = "done", !.gen = "complete", !.upstream_open = FALSE]

\* generate(): except Exception: logger.error(...); raise
Reraised(r) ==
  [r EXCEPT !.pc = "done", !.gen = "raised", !.upstream_open = FALSE]

\* a read of iter_content raises (connection reset, read timeout) before the
\* body is through
PullFails ==
  /\ req.pc = "relay" /\ req.gen = "suspended"
  /\ req.offset < UpstreamBody.size
  /\ req' = Reraised([req EXCEPT !.read_failed = TRUE])
  /\ UNCHANGED <<cookie, video_sessions, video_metadata, now, produced, threadvars, pool>>

\* mutant: a generator that catches the close and asks for the next chunk
CloseIgnored(r) == [r EXCEPT !.gen = "suspended"]

\* generate() closed at its yield: GeneratorExit is no Exception, the except
\* clause lets it pass, the generator ends and gives up the upstream response
Closed(r) ==
  [r EXCEPT !.pc = "done", !.gen = "closed", !.upstream_open = FALSE]

\* the serving layer writes the chunk it was given; the write to a client that
\* is gone fails, and the serving layer closes the generator
WriteChunk ==
  /\ req.pc = "relay" /\ req.gen = "yielded"
  /\ req' = IF req.client_gone THEN Closed(req)
            ELSE [req EXCEPT !.emitted = Append(req.emitted, req.pending),
                             !.gen = "suspended"]
  /\ UNCHANGED <<cookie, video_sessions, video_metadata, now, produced, threadvars, pool>>

\* the client goes away while the body is being relayed
ClientDisconnect ==
  /\ req.pc = "relay" /\ ~req.client_gone
  /\ req' = [req EXCEPT !.client_gone = TRUE]
  /\ UNCHANGED <<cookie, video_sessions, video_metadata, now, produced, threadvars, pool>>

\* the clock
Tick ==
  /\ now < MaxTime
  /\ now' = now + 1
  /\ UNCHANGED <<cookie, video_sessions, video_metadata, req, produced, threadvars, pool>>

\* ---------------------------------------------------------------- Spec
\* The session scope: every client, form value, url parameter and proxy path,
\* with one method, one player, no Range and an upstream that answers 200 (so
\* no request reaches the retry of stream_video).
SessionMethods == {"GET"}
SessionUserAgents == {<<"Mozilla">>}
SessionRanges == {""}
SessionOutcomes == {Answer(200)}

Next ==
  \/ \E c \in Clients, raw \in FormValues : SetVideo(c, raw)
  \/ \E c \in Clients, m \in SessionMethods, u \in UrlParams,
        ua \in SessionUserAgents, rg \in SessionRanges : Video(c, m, u, ua, rg)
  \/ \E c \in Clients, m \in SessionMethods, u \in UrlParams,
        ua \in SessionUserAgents, rg \in SessionRanges : FastVideo(c, m, u, ua, rg)
  \/ \E c \in Clients, p \in ProxyPaths,
        ua \in SessionUserAgents, rg \in SessionRanges : ProxyVideo(c, p, ua, rg)
  \/ \E c \in Clients, m \in SessionMethods, u \in UrlParams,
        ua \in SessionUserAgents, rg \in SessionRanges : MxPlayerStream(c, m, u, ua, rg)
  \/ \E o \in SessionOutcomes : StreamVideoGet(o)
  \/ \E o \in SessionOutcomes : MxGet(o)
  \/ PullEnd
  \/ Tick

Spec == Init /\ [][Next]_vars

\* ----------------------------------------------------------- SpecRelay
\* The relay scope: one client and a clock that stands still, with every
\* method, player, Range and upstream outcome.
RelayClients == {"c1"}

NextRelay ==
  \/ \E c \in RelayClients, raw \in FormValues : SetVideo(c, raw)
  \/ \E c \in RelayClients, m \in Methods, u \in UrlParams,
        ua \in UserAgents, rg \in Ranges : Video(c, m, u, ua, rg)
  \/ \E c \in RelayClients, m \in Methods, u \in UrlParams,
        ua \in UserAgents, rg \in Ranges : FastVideo(c, m, u, ua, rg)
  \/ \E c \in RelayClients, p \in ProxyPaths,
        ua \in UserAgents, rg \in Ranges : ProxyVideo(c, p, ua, rg)
  \/ \E c \in RelayClients, m \in Methods, u \in UrlParams,
        ua \in UserAgents, rg \in Ranges : MxPlayerStream(c, m, u, ua, rg)
  \/ \E o \in Outcomes : StreamVideoGet(o)
  \/ \E o \in Outcomes : StreamVideoRetry(o)
  \/ \E o \in Outcomes : MxGet(o)
  \/ PullEnd

SpecRelay == Init /\ [][NextRelay]_vars

\* ------------------------------------------------------------ SpecBody
\* The body scope: one client asking each streaming endpoint for a given URL,
\* an upstream that answers 200 with bodies of several sizes and framings,
\* reads that can fail and a client that can go away.
BodyUrlParams == {UrlA}
BodyProxyPaths == {<<"a">>}
BodyMethods == {"GET"}
Bodies == {NoBody, Body(FAST_CHUNK_SIZE + 1, 0), Body(3 * 1024 * 1024, 0),
           Body(3 * 1024 * 1024, 768 * 1024)}
BodyOutcomes == {AnswerWith(200, WholeHeaders, b) : b \in Bodies}

NextBody ==
  \/ \E c \in RelayClients, m \in BodyMethods, u \in BodyUrlParams,
        ua \in SessionUserAgents, rg \in SessionRanges : Video(c, m, u, ua, rg)
  \/ \E c \in RelayClients, m \in BodyMethods, u \in BodyUrlParams,
        ua \in SessionUserAgents, rg \in SessionRanges : FastVideo(c, m, u, ua, rg)
  \/ \E c \in RelayClients, p \in BodyProxyPaths,
        ua \in SessionUserAgents, rg \in SessionRanges : ProxyVideo(c, p, ua, rg)
  \/ \E c \in RelayClients, m \in BodyMethods, u \in BodyUrlParams,
        ua \in SessionUserAgents, rg \in SessionRanges : MxPlayerStream(c, m, u, ua, rg)
  \/ \E o \in BodyOutcomes : StreamVideoGet(o)
  \/ \E o \in BodyOutcomes : MxGet(o)
  \/ PullChunk
  \/ PullEnd
  \/ PullFails
  \/ WriteChunk
  \/ ClientDisconnect

SpecBody == Init /\ [][NextBody]_vars

\* the same with the scheduling of the serving layer: it keeps iterating the
\* generator and writing what it yields, and a read of the upstream returns
\* (with data, with the end of the body, or with an error after the timeout)
RelayStep == PullChunk \/ PullEnd \/ PullFails \/ WriteChunk
SpecBodyFair == SpecBody /\ WF_vars(RelayStep)

\* ------------------------------------------------- threads of one process
\* Under app.run(threaded=True) each request runs in a thread of its own, next
\* to the cleanup_sessions thread; the steps below are the handlers' accesses
\* to the cookie session and to the two module-level dicts, one dict operation
\* per step.  The upstream exchange of a streaming request is the interval
\* between StreamOpen and StreamEnd.
ThreadClients == {"c1"}
ThreadFormValues == {UrlA}

\* 3600, the age in seconds after which cleanup_sessions evicts
TTL == 3600

\* the readings of time.time() the threads can see
Instants == {0, 1, TTL + 1, TTL + 2}

Free(t) == server_running /\ handlers[t].pc \in {"idle", "done"}
At(t, pc) == server_running /\ handlers[t].pc = pc
Goto(t, h) == handlers' = [handlers EXCEPT ![t] = h]

\* the locals of a handler that has answered: what it was and what it answered
Finished(h, status) ==
  [IdleHandler EXCEPT !.pc = "done", !.op = h.op, !.status = status,
                      !.session_obj = h.session_obj]

\* set_video up to video_sessions.clear(): the form is read, the counter and
\* the id computed, the cookie session written (in the request's copy, saved
\* with the response) and the connection map cleared
SetVideoClearSessions(t, c, raw) ==
  LET new_url == Strip(raw)
      cache_buster == get_cache_buster(c) + 1
      id == IsolatedId(cache_buster, now)
  IN /\ Free(t)
     /\ new_url # NoUrl
     /\ cache_buster <= MaxCounter
     /\ video_sessions' = Cleared(video_sessions)
     /\ Goto(t, [IdleHandler EXCEPT
                   !.pc = "clear_metadata", !.op = "set_video", !.client = c,
                   !.new_url = new_url, !.active_session_id = id,
                   !.session = StoredCookie(new_url, id, cache_buster)])
     /\ UNCHANGED <<cookie, video_metadata, now, req, produced,
                    janitor, closed, server_running, pool>>

\* video_metadata.clear()
SetVideoClearMetadata(t) ==
  /\ At(t, "clear_metadata")
  /\ video_metadata' = Cleared(video_metadata)
  /\ Goto(t, [handlers[t] EXCEPT !.pc = "store_session"])
  /\ UNCHANGED <<cookie, video_sessions, now, req, produced,
                 janitor, closed, server_running, pool>>

\* video_sessions[active_video_id] = isolated_session
SetVideoStoreSession(t) ==
  LET h == handlers[t]
  IN /\ At(t, "store_session")
     /\ video_sessions' = Put(video_sessions, h.active_session_id,
                              IsolatedSession(h.active_session_id))
     /\ Goto(t, [h EXCEPT !.pc = "store_metadata",
                          !.session_obj = IsolatedSession(h.active_session_id)])
     /\ UNCHANGED <<cookie, video_metadata, now, req, produced,
                    janitor, closed, server_running, pool>>

\* video_metadata[active_video_id] = {...}; the page is rendered and the cookie
\* session saved with the response
SetVideoStoreMetadata(t) ==
  LET h == handlers[t]
  IN /\ At(t, "store_metadata")
     /\ video_metadata' = Put(video_metadata, h.active_session_id,
                              Metadata(h.new_url, now, h.session.cache_buster,
                                       h.active_session_id))
     /\ cookie' = [cookie EXCEPT ![h.client] = h.session]
     /\ Goto(t, Finished(h, 200))
     /\ UNCHANGED <<video_sessions, now, req, produced,
                    janitor, closed, server_running, pool>>

\* /video with no url parameter, up to the membership test: the route reads
\* the current URL of the cookie session and calls stream_video, generate_stream
\* reads the active id; if active_session_id and active_session_id in
\* video_sessions: ... else: the new id is made of the cookie's counter plus one
\* and of the time
StreamCheck(t, c) ==
  LET h == [IdleHandler EXCEPT
              !.op = "stream_video", !.client = c,
              !.new_url = get_current_video_url(c), !.session = cookie[c],
              !.active_session_id = get_active_session_id(c)]
  IN /\ Free(t)
     /\ get_current_video_url(c) # NoUrl
     /\ IF h.active_session_id # NoId /\ h.active_session_id \in DOMAIN video_sessions
        THEN Goto(t, [h EXCEPT !.pc = "read_session"])
        ELSE Goto(t, [h EXCEPT !.pc = "create_session", !.new_session = TRUE,
                        !.active_session_id =
                           IsolatedId(h.session.cache_buster + 1, now)])
     /\ UNCHANGED <<cookie, video_sessions, video_metadata, now, req, produced,
                    janitor, closed, server_running, pool>>

\* the answer of except Exception: 500 "Unexpected error"
UnexpectedError(h) == Finished(h, 500)

\* session_obj = video_sessions[active_session_id]; a missing key is a KeyError
StreamReadSession(t) ==
  LET h == handlers[t]
  IN /\ At(t, "read_session")
     /\ IF h.active_session_id \in DOMAIN video_sessions
        THEN Goto(t, [h EXCEPT !.pc = "read_url",
                        !.session_obj = video_sessions[h.active_session_id]])
        ELSE Goto(t, UnexpectedError(h))
     /\ UNCHANGED <<cookie, video_sessions, video_metadata, now, req, produced,
                    janitor, closed, server_running, pool>>

\* the stream session_obj.get(..., stream=True) has opened, and the relay starts
Relay(h, actual_video_url) ==
  [h EXCEPT !.pc = "relay", !.actual_video_url = actual_video_url,
            !.stream_open = TRUE]

\* actual_video_url = video_metadata[active_session_id]['url'], then the
\* upstream GET through session_obj
StreamReadUrl(t) ==
  LET h == handlers[t]
  IN /\ At(t, "read_url")
     /\ IF h.active_session_id \in DOMAIN video_metadata
        THEN Goto(t, Relay(h, video_metadata[h.active_session_id].url))
        ELSE Goto(t, UnexpectedError(h))
     /\ UNCHANGED <<cookie, video_sessions, video_metadata, now, req, produced,
                    janitor, closed, server_running, pool>>

\* video_sessions[active_session_id] = session_obj
StreamStoreSession(t) ==
  LET h == handlers[t]
  IN /\ At(t, "create_session")
     /\ video_sessions' = Put(video_sessions, h.active_session_id,
                              StreamSession(h.active_session_id))
     /\ Goto(t, [h EXCEPT !.pc = "create_metadata",
                          !.session_obj = StreamSession(h.active_session_id)])
     /\ UNCHANGED <<cookie, video_metadata, now, req, produced,
                    janitor, closed, server_running, pool>>

\* video_metadata[active_session_id] = {...}; actual_video_url = video_url,
\* then the upstream GET through session_obj
StreamStoreMetadata(t) ==
  LET h == handlers[t]
  IN /\ At(t, "create_metadata")
     /\ video_metadata' = Put(video_metadata, h.active_session_id,
                              Metadata(h.new_url, now, h.session.cache_buster + 1,
                                       h.active_session_id))
     /\ Goto(t, Relay(h, h.new_url))
     /\ UNCHANGED <<cookie, video_sessions, now, req, produced,
                    janitor, closed, server_running, pool>>

\* the relay reaches the end of the body if the upstream stream is still open,
\* and fails with a read error if it was cut
StreamEnd(t) ==
  LET h == handlers[t]
  IN /\ At(t, "relay")
     /\ Goto(t, Finished(h, IF h.stream_open THEN 200 ELSE 0))
     /\ UNCHANGED <<cookie, video_sessions, video_metadata, now, req, produced,
                    janitor, closed, server_running, pool>>

\* mutant: a close() that cuts the streams opened through the session
SessionCloseCutsStreams(hs, session_obj) ==
  [t \in Threads |->
     IF hs[t].pc = "relay" /\ hs[t].session_obj = session_obj
     THEN [hs[t] EXCEPT !.stream_open = FALSE]
     ELSE hs[t]]

\* requests.Session.close() as the handler threads see it: the adapters' pools
\* are cleared, which closes the idle pooled connections; a connection checked
\* out for a stream=True response is not in the pool and stays open
SessionClose(hs, session_obj) == hs

\* while server_running: current_time = time.time(); sessions_to_remove = [];
\* the iterator over video_metadata.items() notes the size of the dict
JanitorWake ==
  /\ server_running
  /\ janitor.pc = "sleep"
  /\ janitor' = [SleepingJanitor EXCEPT
                   !.pc = "scan", !.current_time = now,
                   !.size = Cardinality(DOMAIN video_metadata)]
  /\ UNCHANGED <<cookie, video_sessions, video_metadata, now, req, produced,
                 handlers, closed, server_running, pool>>

\* the sweep ends in the handler of except Exception, then time.sleep(300)
Aborted(j) == SleepingJanitor

\* the end of the for loop over sessions_to_remove, then time.sleep(300)
Completed(j) == [SleepingJanitor EXCEPT !.completed = TRUE]

\* one turn of for session_id, metadata in video_metadata.items(): a dict whose
\* size changed since the iteration began raises RuntimeError; else the next
\* item is visited and its id appended when its age is above the limit
JanitorScan ==
  /\ server_running
  /\ janitor.pc = "scan"
  /\ IF Cardinality(DOMAIN video_metadata) # janitor.size
     THEN janitor' = Aborted(janitor)
     ELSE IF DOMAIN video_metadata \subseteq janitor.seen
     THEN janitor' = [janitor EXCEPT !.pc = "remove", !.i = 1]
     ELSE \E session_id \in DOMAIN video_metadata \ janitor.seen :
            janitor' = [janitor EXCEPT
              !.seen = @ \cup {session_id},
              !.sessions_to_remove =
                 IF janitor.current_time - video_metadata[session_id].created > TTL
                 THEN Append(@, session_id) ELSE @]
  /\ UNCHANGED <<cookie, video_sessions, video_metadata, now, req, produced,
                 handlers, closed, server_running, pool>>

\* the id the removal loop is at
Removing == janitor.sessions_to_remove[janitor.i]

\* for session_id in sessions_to_remove: if session_id in video_sessions:
JanitorCheckSession ==
  /\ server_running
  /\ janitor.pc = "remove"
  /\ IF janitor.i > Len(janitor.sessions_to_remove)
     THEN janitor' = Completed(janitor)
     ELSE IF Removing \in DOMAIN video_sessions
     THEN janitor' = [janitor EXCEPT !.pc = "close"]
     ELSE janitor' = [janitor EXCEPT !.pc = "check_metadata"]
  /\ UNCHANGED <<cookie, video_sessions, video_metadata, now, req, produced,
                 handlers, closed, server_running, pool>>

\* try: video_sessions[session_id].close() except: pass
JanitorClose ==
  /\ server_running
  /\ janitor.pc = "close"
  /\ IF Removing \in DOMAIN video_sessions
     THEN /\ closed' = closed \cup {video_sessions[Removing]}
          /\ handlers' = SessionClose(handlers, video_sessions[Removing])
     ELSE UNCHANGED <<closed, handlers>>
  /\ janitor' = [janitor EXCEPT !.pc = "del_session"]
  /\ UNCHANGED <<cookie, video_sessions, video_metadata, now, req, produced,
                 server_running, pool>>

\* del d[k]
Del(d, k) == [x \in DOMAIN d \ {k} |-> d[x]]

\* del video_sessions[session_id]; a missing key is a KeyError, which ends the
\* sweep
JanitorDelSession ==
  /\ server_running
  /\ janitor.pc = "del_session"
  /\ IF Removing \in DOMAIN video_sessions
     THEN /\ video_sessions' = Del(video_sessions, Removing)
          /\ janitor' = [janitor EXCEPT !.pc = "check_metadata"]
     ELSE /\ janitor' = Aborted(janitor)
          /\ UNCHANGED video_sessions
  /\ UNCHANGED <<cookie, video_metadata, now, req, produced,
                 handlers, closed, server_running, pool>>

\* if session_id in video_metadata:
JanitorCheckMetadata ==
  /\ server_running
  /\ janitor.pc = "check_metadata"
  /\ IF Removing \in DOMAIN video_metadata
     THEN janitor' = [janitor EXCEPT !.pc = "del_metadata"]
     ELSE janitor' = [janitor EXCEPT !.pc = "remove", !.i = @ + 1]
  /\ UNCHANGED <<cookie, video_sessions, video_metadata, now, req, produced,
                 handlers, closed, server_running, pool>>

\* del video_metadata[session_id]
JanitorDelMetadata ==
  /\ server_running
  /\ janitor.pc = "del_metadata"
  /\ IF Removing \in DOMAIN video_metadata
     THEN /\ video_metadata' = Del(video_metadata, Removing)
          /\ janitor' = [janitor EXCEPT !.pc = "remove", !.i = @ + 1]
     ELSE /\ janitor' = Aborted(janitor)
          /\ UNCHANGED video_metadata
  /\ UNCHANGED <<cookie, video_sessions, now, req, produced,
                 handlers, closed, server_running, pool>>

\* a step of the cleanup_sessions thread
JanitorStep ==
  \/ JanitorWake
  \/ JanitorScan
  \/ JanitorCheckSession
  \/ JanitorClose
  \/ JanitorDelSession
  \/ JanitorCheckMetadata
  \/ JanitorDelMetadata

\* signal_handler: server_running = False, every session of video_sessions is
\* closed, sys.exit(0)
Shutdown ==
  /\ server_running
  /\ server_running' = FALSE
  /\ closed' = closed \cup {video_sessions[id] : id \in DOMAIN video_sessions}
  /\ UNCHANGED <<cookie, video_sessions, video_metadata, now, req, produced,
                 handlers, janitor, pool>>

\* the clock moves on to a later reading: by a second at any point, by more
\* only while no handler is between two statements of its work on the registry
\* (what a handler does there takes far less than a second)
TimePasses ==
  /\ server_running
  /\ \E t \in Instants :
       /\ t > now
       /\ t - now > 1 => \A h \in Threads : handlers[h].pc \in {"idle", "done", "relay"}
       /\ now' = t
  /\ UNCHANGED <<cookie, video_sessions, video_metadata, req, produced,
                 handlers, janitor, closed, server_running, pool>>

\* a step of a handler thread
HandlerStep ==
  \/ \E t \in SetVideoThreads, c \in ThreadClients, raw \in ThreadFormValues :
       SetVideoClearSessions(t, c, raw)
  \/ \E t \in SetVideoThreads : SetVideoClearMetadata(t)
  \/ \E t \in SetVideoThreads : SetVideoStoreSession(t)
  \/ \E t \in SetVideoThreads : SetVideoStoreMetadata(t)
  \/ \E t \in StreamThreads, c \in ThreadClients : StreamCheck(t, c)
  \/ \E t \in StreamThreads : StreamReadSession(t)
  \/ \E t \in StreamThreads : StreamReadUrl(t)
  \/ \E t \in StreamThreads : StreamStoreSession(t)
  \/ \E t \in StreamThreads : StreamStoreMetadata(t)
  \/ \E t \in StreamThreads : StreamEnd(t)

\* the threads of the process while it runs
NextRunning ==
  \/ HandlerStep
  \/ JanitorStep
  \/ TimePasses

NextThreads ==
  \/ NextRunning
  \/ Shutdown

SpecThreads == Init /\ [][NextThreads]_vars

\* the steps with which a handler thread goes on with the request it has taken
SetVideoGoesOn(t) ==
  \/ SetVideoClearMetadata(t)
  \/ SetVideoStoreSession(t)
  \/ SetVideoStoreMetadata(t)

StreamGoesOn(t) ==
  \/ StreamReadSession(t)
  \/ StreamReadUrl(t)
  \/ StreamStoreSession(t)
  \/ StreamStoreMetadata(t)
  \/ StreamEnd(t)

\* the process is not stopped, the cleanup_sessions thread keeps running and a
\* handler thread that has taken a request is scheduled until it has answered
SpecThreadsFair ==
  /\ Init /\ [][NextRunning]_vars
  /\ WF_vars(JanitorStep)
  /\ \A t \in SetVideoThreads : WF_vars(SetVideoGoesOn(t))
  /\ \A t \in StreamThreads : WF_vars(StreamGoesOn(t))

\* ----------------------------------------------------------- SpecWorkers
\* The workers of gunicorn (workers = cpu_count * 2 + 1, sync, preload_app):
\* the master hands each request to one of them, and a request is served with
\* the dicts of the worker it was handed to; the cookie session, which travels
\* with the client, and the clock are the same for all.

\* the next request goes to worker w: its dicts are the ones at hand, those of
\* the worker that served before are put aside as they are
Dispatch(w) ==
  /\ req.pc \in {"idle", "done"}
  /\ w # pool.serving
  /\ video_sessions' = pool.parked[w].video_sessions
  /\ video_metadata' = pool.parked[w].video_metadata
  /\ pool' = [pool EXCEPT
               !.serving = w,
               !.parked[w] = EmptyRegistry,
               !.parked[pool.serving] =
                  [video_sessions |-> video_sessions,
                   video_metadata |-> video_metadata]]
  /\ UNCHANGED <<cookie, now, req, produced, threadvars>>

\* the requests of this scope: set-video with a URL, /video without url
WorkerFormValues == {UrlA, <<SP, "http://", "b", SP>>}
WorkerUrlParams == {NoUrl}

NextWorkers ==
  \/ \E c \in Clients, raw \in WorkerFormValues : SetVideo(c, raw)
  \/ \E c \in Clients, m \in SessionMethods, u \in WorkerUrlParams,
        ua \in SessionUserAgents, rg \in SessionRanges : Video(c, m, u, ua, rg)
  \/ \E o \in SessionOutcomes : StreamVideoGet(o)
  \/ PullEnd
  \/ Tick
  \/ \E w \in Workers : Dispatch(w)

SpecWorkers == Init /\ [][NextWorkers]_vars

\* ------------------------------------------------------------- claims
\* steps and states the claims speak of
SetVideoDone == req.endpoint = "set-video" /\ req.pc = "done" /\ req.status = 200

\* a step in which set_video created a session
SetVideoStep == req' # req /\ req'.endpoint = "set-video" /\ req'.status = 200

\* a step in which stream_video created a session
StreamCreateStep ==
  req' # req /\ req'.fn = "stream_video" /\ req'.new_session /\ Len(req'.gets) = 0

\* the request served by stream_video or stream_video_mx_optimized has ended
RelayDone == req.pc = "done" /\ req.fn \in {"stream_video", "mx"}

LastGet == req.gets[Len(req.gets)]

\* C1: a /video or /fast request without url parameter sends every upstream
\* GET to the URL the same client set last (its current URL), never to a URL
\* set by another client.
C1_NoUrlRequestOpensOwnCurrentUrl ==
  (req.endpoint \in {"video", "fast"} /\ req.url_given = NoUrl)
    => \A i \in 1..Len(req.gets) :
         req.gets[i].url = get_current_video_url(req.client)

\* C2: right after a set-video call with a non-empty URL, the client's current
\* session id and current URL are the id and the (stripped) URL of that call,
\* the ones its answer shows, and the id carries the client's new counter.
C2_CurrentIsWhatSetVideoProduced ==
  SetVideoDone =>
    /\ get_active_session_id(req.client) = req.page.session_id
    /\ get_current_video_url(req.client) = req.page.url
    /\ req.page.url = Strip(req.url_given)
    /\ req.page.session_id.counter = get_cache_buster(req.client)
    /\ req.page.session_id # NoId

\* C2 witness: the second set-video call of a client has been answered.
C2_Witness == SetVideoDone /\ get_cache_buster(req.client) = 2

\* C3: a /video or /fast request with a url parameter, and a /proxy request,
\* sends every upstream GET to the given URL.
C3_GivenUrlIsOpened ==
  ((req.endpoint \in {"video", "fast"} /\ req.url_given # NoUrl)
     \/ req.endpoint = "proxy")
    => \A i \in 1..Len(req.gets) : req.gets[i].url = req.url_given

C5_SetVideoIdIsNew ==
  [][SetVideoStep => req'.page.session_id \notin produced]_vars

\* C6: every session creation, by set_video or by stream_video, uses a counter
\* larger than the counter of every session id created before it in the
\* process.
C6_CounterGrowsWithEveryCreation ==
  [][/\ SetVideoStep =>
          \A id \in produced : req'.page.session_id.counter > id.counter
     /\ StreamCreateStep =>
          \A id \in produced : req'.active_session_id.counter > id.counter]_vars

\* C7: no step gives a session id that is bound to a URL in the registry a
\* different URL.
C7_BoundUrlNeverChanges ==
  [][\A id \in DOMAIN video_metadata \cap DOMAIN video_metadata' :
       video_metadata'[id].url = video_metadata[id].url]_vars

\* C8: a request that reached the upstream made at most two GETs; it made a
\* second one exactly when the first was answered 403, and the second differs
\* from the first by the alternate Referer alone.
C8_SecondGetIffFirst403 ==
  (RelayDone /\ Len(req.gets) >= 1) =>
    /\ Len(req.gets) <= 2
    /\ Len(req.gets) = 2 <=> req.gets[1].outcome = Answer(403)
    /\ Len(req.gets) = 2 =>
         /\ req.gets[2].headers.referer = AlternateReferer
         /\ req.gets[1].headers.referer # AlternateReferer
         /\ [req.gets[2] EXCEPT !.outcome = req.gets[1].outcome,
                                !.headers.referer = req.gets[1].headers.referer]
              = req.gets[1]

\* C9: on every streaming endpoint, a first GET answered 403 is followed by a
\* second GET carrying the alternate Referer, and when that one is answered 200
\* the client receives status 200.
C9_Retry403Then200 ==
  (RelayDone /\ Len(req.gets) >= 1 /\ req.gets[1].outcome = Answer(403)) =>
    /\ Len(req.gets) = 2
    /\ req.gets[2].headers.referer = AlternateReferer
    /\ req.gets[2].outcome = Answer(200) => req.status = 200

\* the last upstream answer of the request was an error status other than 403
UpstreamErrorNot403 ==
  /\ RelayDone /\ Len(req.gets) >= 1
  /\ LastGet.outcome.exc = "none"
  /\ LastGet.outcome.status >= 400
  /\ LastGet.outcome.status # 403

\* C10 as stated: the client receives the upstream's error status, or 502.
C10_UpstreamErrorStatusPropagated ==
  UpstreamErrorNot403 => req.status \in {LastGet.outcome.status, 502}

\* C10 amended: the client receives status 500 with a plain-text body, whatever
\* the upstream's error status.
C10_UpstreamErrorAnswered500 ==
  UpstreamErrorNot403 => (req.status = 500 /\ req.body = "text")

\* C10 witness: a stream_video request has ended on an upstream 404 answered to
\* its retry.
C10_Witness ==
  /\ UpstreamErrorNot403 /\ LastGet.outcome = Answer(404)
  /\ Len(req.gets) = 2 /\ req.fn = "stream_video"

\* the request ended after an upstream GET that raised, or whose last answer
\* was 403
OpenFailed ==
  /\ RelayDone /\ Len(req.gets) >= 1
  /\ LastGet.outcome.exc # "none" \/ LastGet.outcome.status = 403

\* C11: on every streaming endpoint, a request whose upstream GET raised
\* (timeout, connection error) or whose last attempt was answered 403 receives
\* status 500 with a plain-text body, the answer of the handler's own except
\* clause and not the error page of an exception that left the handler.
C11_OpenFailureAnswered500Text ==
  OpenFailed =>
    /\ req.status = 500 /\ req.body = "text"
    /\ req.resp_headers = ("Content-Type" :> "text/plain; charset=utf-8")

\* C11 witness: stream_video has ended on a 403 answered to both attempts.
C11_Witness ==
  /\ OpenFailed /\ req.fn = "stream_video" /\ Len(req.gets) = 2
  /\ req.gets[1].outcome.status = 403 /\ req.gets[2].outcome.status = 403
  /\ req.status = 500

\* a request for /video, /fast or /mx, other than a preflight, arrives without
\* url parameter from a client whose cookie holds no URL
NoUrlArrival ==
  /\ req' # req /\ req.pc \in {"idle", "done"}
  /\ req'.endpoint \in {"video", "fast", "mx"} /\ req'.method # "OPTIONS"
  /\ req'.url_given = NoUrl /\ get_current_video_url(req'.client) = NoUrl

\* the User-Agent names MX Player, in either spelling
SaysMxPlayer(ua) == \E i \in 1..Len(ua) : ua[i] \in {"MX Player", "MXPlayer"}

\* C12: such a request is answered at once, without upstream GET and with the
\* registry as it was: by 400 on /mx, and on /video and /fast by 400 when the
\* User-Agent names MX Player, else by a redirect to the home page.
C12_NoUrlAnsweredWithoutUpstream ==
  [][NoUrlArrival =>
       /\ req'.pc = "done" /\ req'.gets = << >> /\ req'.fn = "none"
       /\ ~req'.new_session
       /\ video_sessions' = video_sessions /\ video_metadata' = video_metadata
       /\ produced' = produced
       /\ IF req'.endpoint = "mx" \/ SaysMxPlayer(req'.user_agent)
          THEN req'.status = 400
          ELSE req'.status = 302 /\ req'.resp_headers = ("Location" :> "/")]_vars

\* C12 witness: /video has answered 400 to an MX Player that gave no URL and
\* had set none.
C12_Witness ==
  /\ req.pc = "done" /\ req.endpoint = "video" /\ req.method = "HEAD"
  /\ req.url_given = NoUrl /\ get_current_video_url(req.client) = NoUrl
  /\ req.user_agent = <<"MXPlayer">> /\ req.status = 400

\* an OPTIONS request arrives
OptionsArrival ==
  req' # req /\ req.pc \in {"idle", "done"} /\ req'.method = "OPTIONS"

C14_HeadAnsweredFromMetadataProbe ==
  (req.method = "HEAD" /\ Len(req.gets) >= 1) =>
    /\ req.offset = 0 /\ req.emitted = << >> /\ req.gen = "none"
    /\ req.pc = "done" => req.body \in {"empty", "text"}
    /\ \A i \in 1..Len(req.gets) :
         req.gets[i].method = "HEAD" /\ ~req.gets[i].stream

\* C15: every upstream GET of a request carries the Range header of the
\* inbound request, and none when the inbound request has none.
C15_RangeForwardedOnEveryAttempt ==
  \A i \in 1..Len(req.gets) : req.gets[i].headers.range = req.range

\* C15 witness: the retry after a 403 has been sent for a request with a Range.
C15_Witness ==
  /\ Len(req.gets) = 2 /\ req.range = "bytes=0-"
  /\ req.gets[2].headers.referer = AlternateReferer

\* a relay function has answered the request from an upstream response that
\* passed raise_for_status()
RelaySucceeded ==
  /\ req.pc \in {"relay", "done"} /\ req.fn \in {"stream_video", "mx"}
  /\ Len(req.gets) >= 1
  /\ LastGet.outcome.exc = "none" /\ ~RaisesForStatus(LastGet.outcome.status)

\* C16: the answer to a successful streaming request, GET or HEAD, has the
\* status of the upstream response, and the Content-Range and Content-Length
\* of the upstream response when it has them.
C16_StatusAndLengthPassedThrough ==
  RelaySucceeded =>
    /\ req.status = LastGet.outcome.status
    /\ \A h \in {"Content-Range", "Content-Length"} \cap DOMAIN LastGet.outcome.headers :
         /\ h \in DOMAIN req.resp_headers
         /\ req.resp_headers[h] = LastGet.outcome.headers[h]

\* the end of the last chunk written to the client, as an offset into the body
EmittedEnd ==
  IF req.emitted = << >> THEN 0
  ELSE req.emitted[Len(req.emitted)].off + req.emitted[Len(req.emitted)].len

\* the chunks written so far follow one another from offset 0 without gap or
\* overlap, each non-empty and of at most n bytes
EmittedInOrder(n) ==
  \A i \in 1..Len(req.emitted) :
    /\ req.emitted[i].off = IF i = 1 THEN 0
                            ELSE req.emitted[i - 1].off + req.emitted[i - 1].len
    /\ req.emitted[i].len >= 1 /\ req.emitted[i].len <= n

\* the body of a GET answer is being relayed, or has been
Relaying == req.body = "stream" /\ req.fn \in {"stream_video", "mx"}

C18_ThreeMiBInExactlyThreeChunks ==
  Relaying =>
    /\ EmittedInOrder(req.chunk_size)
    /\ req.gen = "complete" => EmittedEnd = UpstreamBody.size
    /\ (req.gen = "complete" /\ req.mode = "fast"
          /\ UpstreamBody.size = 3 * 1024 * 1024)
         => Len(req.emitted) = 3

\* C18 amended: the chunks emitted are the upstream body in order, each
\* non-empty and of at most chunk_size bytes; a 3 MiB body in fast mode is
\* emitted as at least 3 chunks, and as exactly 3 when the upstream sends it in
\* one piece, so that every read is filled.
C18_BodyRelayedInOrder ==
  Relaying =>
    /\ EmittedInOrder(req.chunk_size)
    /\ req.gen = "complete" => EmittedEnd = UpstreamBody.size
    /\ (req.gen = "complete" /\ req.mode = "fast"
          /\ UpstreamBody.size = 3 * 1024 * 1024)
         => /\ Len(req.emitted) >= 3
            /\ UpstreamBody.piece = 0 => Len(req.emitted) = 3

\* C18 witness: a 3 MiB body sent in one piece has been relayed in fast mode,
\* and so has a body that ends with a chunk of one byte.
C18_Witness ==
  /\ Relaying /\ req.gen = "complete" /\ req.mode = "fast"
  /\ \/ UpstreamBody = Body(3 * 1024 * 1024, 0) /\ Len(req.emitted) = 3
     \/ UpstreamBody = Body(FAST_CHUNK_SIZE + 1, 0) /\ Len(req.emitted) = 2

\* C19: after a read of the upstream body has failed, the generator has ended
\* by raising, not by returning, and the client has been sent the chunks read
\* before the failure and nothing after them.
C19_ReadFailureIsRaised ==
  req.read_failed =>
    /\ req.pc = "done" /\ req.gen = "raised"
    /\ EmittedEnd = req.offset /\ req.offset < UpstreamBody.size

\* C19 witness: a read failed after two chunks had been relayed.
C19_Witness == req.read_failed /\ Len(req.emitted) = 2

\* C20: once the client is gone the generator reads the upstream at most once
\* more, and the relay then ends with the upstream response given up.
C20_DisconnectEndsRelay ==
  /\ [](req.late_pulls <= 1)
  /\ [](req.pc = "done" => ~req.upstream_open)
  /\ (req.client_gone /\ req.pc = "relay") ~> (req.pc = "done" /\ ~req.upstream_open)

\* C20 witness: the generator was closed after the one read it made with the
\* client gone, and the body was not through.
C20_Witness ==
  /\ req.client_gone /\ req.gen = "closed" /\ req.late_pulls = 1
  /\ req.offset < UpstreamBody.size /\ ~req.upstream_open

\* the Content-Type the upstream sent with the response that was relayed
UpstreamContentType == LastGet.outcome.headers["Content-Type"]

\* C21: on /video, /fast and /mx, for GET and for HEAD, the answer to a mobile
\* player has Content-Type video/mp4 when the upstream content type does not
\* start with video/, and the answer to any other client has the upstream
\* content type unchanged.
C21_ContentTypeCoercedForPlayers ==
  (/\ RelaySucceeded /\ req.endpoint \in {"video", "fast", "mx"}
   /\ "Content-Type" \in DOMAIN LastGet.outcome.headers) =>
    /\ (IsPlayer(req.user_agent) /\ ~StartsWithVideo(UpstreamContentType))
         => req.resp_headers["Content-Type"] = "video/mp4"
    /\ ~IsPlayer(req.user_agent)
         => req.resp_headers["Content-Type"] = UpstreamContentType

\* the Content-Disposition values that say inline
InlineDispositions ==
  {VideoFileName(t) : t \in {"video/mp4", "video/webm", "application/octet-stream"}}

\* the headers every answer of a relay function has
CommonHeadersSet ==
  /\ {"Accept-Ranges", "Access-Control-Allow-Origin", "Content-Disposition"}
       \subseteq DOMAIN req.resp_headers
  /\ req.resp_headers["Accept-Ranges"] = "bytes"
  /\ req.resp_headers["Access-Control-Allow-Origin"] = "*"
  /\ req.resp_headers["Content-Disposition"] \in InlineDispositions

\* the cache-defeat headers and the echo of mode and chunk size
CacheDefeatAndEchoSet ==
  /\ {"Cache-Control", "Pragma", "Expires", "X-Stream-Mode", "X-Chunk-Size"}
       \subseteq DOMAIN req.resp_headers
  /\ req.resp_headers["Cache-Control"] = "no-cache, no-store, must-revalidate"
  /\ req.resp_headers["Pragma"] = "no-cache"
  /\ req.resp_headers["Expires"] = "0"

\* C22 as stated: every successful streaming answer has Accept-Ranges, the CORS
\* origin, an inline Content-Disposition, the three cache-defeat headers and
\* X-Stream-Mode and X-Chunk-Size.
C22_EveryAnswerHasAllHeaders ==
  RelaySucceeded => (CommonHeadersSet /\ CacheDefeatAndEchoSet)

\* C22 amended: every successful streaming answer has Accept-Ranges: bytes,
\* Access-Control-Allow-Origin: * and an inline Content-Disposition; the three
\* cache-defeat headers and X-Stream-Mode and X-Chunk-Size are in the GET
\* answers of stream_video alone; its HEAD answers and the GET answers of /mx
\* have Cache-Control: no-cache, the HEAD answers of /mx no Cache-Control, and
\* none of them Pragma, Expires, X-Stream-Mode or X-Chunk-Size.
C22_HeadersByAnswerKind ==
  RelaySucceeded =>
    /\ CommonHeadersSet
    /\ IF req.fn = "stream_video" /\ req.method = "GET"
       THEN CacheDefeatAndEchoSet
       ELSE /\ {"Pragma", "Expires", "X-Stream-Mode", "X-Chunk-Size"}
                 \cap DOMAIN req.resp_headers = {}
            /\ IF req.fn = "mx" /\ req.method = "HEAD"
               THEN "Cache-Control" \notin DOMAIN req.resp_headers
               ELSE req.resp_headers["Cache-Control"] = "no-cache"

\* C22 witness: stream_video has answered a HEAD request of a mobile player
\* from an upstream 206.
C22_Witness ==
  /\ RelaySucceeded /\ req.fn = "stream_video" /\ req.method = "HEAD"
  /\ IsPlayer(req.user_agent) /\ LastGet.outcome.status = 206

\* a client whose last request made stream_video create a session for its
\* current URL asks again for its current URL, with nothing in between
NextStreamingRequest ==
  /\ req.pc = "done" /\ req.fn = "stream_video" /\ req.new_session
  /\ req.url_given = NoUrl
  /\ req' # req /\ req'.fn = "stream_video" /\ req'.client = req.client
  /\ req'.url_given = NoUrl /\ Len(req'.gets) = 0

\* C27: the streaming request that follows one which created a session for the
\* client's current URL finds that session and uses it: it creates none and
\* leaves the registry as it was.
C27_LaterRequestReusesSession ==
  [][NextStreamingRequest =>
       /\ ~req'.new_session
       /\ req'.active_session_id = req.active_session_id
       /\ video_sessions' = video_sessions
       /\ video_metadata' = video_metadata]_vars

\* the ids of the sessions close() was called on
ClosedIds == {s.tag : s \in closed}

\* the step with which a sweep of cleanup_sessions ends without an exception
SweepCompletes ==
  /\ janitor.pc = "remove"
  /\ janitor.i > Len(janitor.sessions_to_remove)
  /\ janitor'.pc = "sleep" /\ janitor'.completed

\* the ids a sweep found to be older than the limit
Expired == {janitor.sessions_to_remove[k] : k \in 1..Len(janitor.sessions_to_remove)}

\* C23: when a sweep of the janitor completes, every session it found older
\* than 3600 seconds is in neither map and its connection has been closed.
C23_SweepRemovesAndClosesExpired ==
  [][SweepCompletes =>
       \A id \in Expired :
         /\ id \notin DOMAIN video_sessions'
         /\ id \notin DOMAIN video_metadata'
         /\ id \in ClosedIds']_vars

\* a handler whose upstream stream was opened and has not ended
InFlight(t) == handlers[t].pc = "relay"

Iterating == janitor.pc = "scan"

\* C25: while the janitor iterates over the metadata map no step of another
\* thread changes the map, and the iteration is never ended by an exception.
C25_NoMutationDuringScan ==
  [][Iterating => /\ video_metadata' = video_metadata
                  /\ janitor'.pc \in {"scan", "remove"}]_vars

\* C26: no step drops a session object from the connection map, by removing
\* its key or by storing another object under it, without close() having been
\* called on it.
C26_NoSessionDroppedUnclosed ==
  [][\A id \in DOMAIN video_sessions :
       (id \notin DOMAIN video_sessions' \/ video_sessions'[id] # video_sessions[id])
         => video_sessions[id] \in closed']_vars

\* C28: no streaming request ends with the 500 answer of an internal error.
C28_NoInternalErrorFromLookup ==
  \A t \in StreamThreads :
    ~(handlers[t].pc = "done" /\ handlers[t].op = "stream_video"
      /\ handlers[t].status = 500)

\* no handler thread and no sweep is in the middle of an operation
Quiescent ==
  /\ \A t \in Threads : handlers[t].pc \in {"idle", "done"}
  /\ janitor.pc = "sleep"

\* C29: whenever no handler and no sweep is in the middle of an operation, the
\* two maps have the same keys and each metadata record names its own key.
C29_MapsAgreeWhenQuiescent ==
  Quiescent =>
    /\ DOMAIN video_sessions = DOMAIN video_metadata
    /\ \A id \in DOMAIN video_metadata : video_metadata[id].session_id = id

\* the ids the handlers can give a session
SessionIds ==
  {IsolatedId(cache_buster, t) : cache_buster \in 1..(MaxCounter + 1), t \in Instants}

\* session id is in the registry and more than 3600 seconds old: by the created
\* time of its metadata record, and by the time in its id when it has none
PastLimit(id) ==
  IF id \in DOMAIN video_metadata
  THEN now - video_metadata[id].created > TTL
  ELSE id \in DOMAIN video_sessions /\ now - id.unixtime > TTL

\* C30: with the janitor thread running, no session stays in the registry for
\* ever once it is more than 3600 seconds old: it is eventually evicted (or
\* replaced by a younger session of the same id).
C30_OldSessionsEventuallyEvicted ==
  \A id \in SessionIds : PastLimit(id) ~> ~PastLimit(id)

\* a form value that is empty or only whitespace
Blank(s) == \A i \in 1..Len(s) : s[i] = SP

\* a step that serves a /set-video request whose video_url is blank
BlankSetVideoStep ==
  /\ req' # req
  /\ req'.endpoint = "set-video"
  /\ Blank(req'.url_given)

\* C32: a set-video call whose video_url is empty or only whitespace leaves the
\* cookie session of every client and the two maps of the registry as they
\* were, and answers with a redirect to the home page.
C32_BlankSetVideoChangesNothing ==
  [][BlankSetVideoStep =>
       /\ cookie' = cookie
       /\ video_sessions' = video_sessions
       /\ video_metadata' = video_metadata
       /\ req'.pc = "done" /\ req'.status = 302
       /\ req'.resp_headers = RedirectHeaders]_vars

\* a whitespace-only set-video was answered while the client had a current
\* URL and the registry a session
C32_Witness ==
  /\ req.endpoint = "set-video" /\ req.url_given = <<SP>>
  /\ req.pc = "done" /\ req.status = 302
  /\ get_current_video_url(req.client) # NoUrl
  /\ get_active_session_id(req.client) \in DOMAIN video_sessions

\* a step in which a worker other than the one that served the client's
\* set-video opens the upstream for a streaming request without url parameter
OtherWorkerOpensUpstream ==
  /\ req'.fn = "stream_video"
  /\ req'.url_given = NoUrl
  /\ Len(req'.gets) = Len(req.gets) + 1
  /\ pool.set_by[req'.client] \notin {"none", pool.serving}

\* C31: when a worker other than the one that served a client's set-video
\* serves that client's streaming request without url parameter, the upstream
\* is opened at the client's current URL.
C31_OtherWorkerStreamsCurrentUrl ==
  [][OtherWorkerOpensUpstream =>
       req'.gets[Len(req'.gets)].url = get_current_video_url(req'.client)]_vars
====
